---- MODULE Spec2Model ----
(***************************************************************************)
(* State-machine model of src/arkanoid.py (ArkanoidGame and its entities). *)
(*                                                                         *)
(* Units.  The program computes in floats; the model computes in exact     *)
(* integers:                                                               *)
(*   - positions (ball, paddle.x, power-up, particle) in 1/100 pixel,      *)
(*   - ball / particle velocities in pixel per second,                     *)
(*   - paddle.vel in 1/100 pixel per second,                               *)
(*   - dt in milliseconds (clock.tick(60) returns whole milliseconds),     *)
(*   - speed_multiplier in tenths (10 is 1.0, 7 is 0.7),                   *)
(*   - particle life in thousandths,                                       *)
(*   - sin / cos of the paddle normal in thousandths, tabulated every      *)
(*     10 degrees.                                                         *)
(* Brick coordinates, widths, score, lives and level are the program's     *)
(* integers.  Fields that only the drawing code reads (Ball.trail,         *)
(* Particle.size, Particle.color, PowerUp.size as a pulse, fonts, screen)  *)
(* are not part of the state.                                              *)
(***************************************************************************)
EXTENDS Integers, Sequences, FiniteSets, TLC

VARIABLES
    state,      \* ArkanoidGame.state : "MENU","PLAYING","PAUSED","GAME_OVER","VICTORY"
    score,      \* ArkanoidGame.score
    lives,      \* ArkanoidGame.lives
    level,      \* ArkanoidGame.level
    paddle,     \* ArkanoidGame.paddle : [x, width, vel, sticky]
    balls,      \* ArkanoidGame.balls  : sequence of Ball records
    bricks,     \* ArkanoidGame.bricks : sequence of Brick records
    particles,  \* ArkanoidGame.particles : sequence of Particle records
    powerups,   \* ArkanoidGame.powerups : sequence of PowerUp records
    tick,       \* history: what the last frame's handler did (see Log)
    probe       \* the entity under test in the specifications of the entity methods

vars == <<state, score, lives, level, paddle, balls, bricks, particles, powerups, tick, probe>>

---------------------------------------------------------------------------
\* Program constants

Width == 800
Height == 600
BallRadius == 8
BallLaunchVy == -300
PaddleBaseWidth == 100
PaddleHeight == 20
PaddleMaxWidth == 200
PaddleExpandStep == 30
BrickWidth == 75
BrickHeight == 25
BrickCols == 10
BrickMaxRows == 10
BrickMaxHealth == 5
PowerUpSize == 20
PowerUpFallSpeed == 150
PowerUpBonus == 50
InitialLives == 3
FinalLevel == 5
ParticleGravity == 500

\* Bounds of the model

\* longest event list pygame.event.get() hands to a handler in one frame
MaxEvents == 2
\* frames are taken only while level < MaxLevel (level has no upper limit in the code)
MaxLevel == 8
\* Playing frames are taken only while fewer than MaxPaddleHits paddle bounces happened in the session
MaxPaddleHits == 1
\* Playing frames taken in the specification of a Playing frame with power-ups in flight
MaxFrames == 2
\* Ball.update calls on one ball in the specification of Ball.update
MaxUpdates == 2

\* Brick.hit calls on one brick in the specification of Brick
MaxHits == 6

\* _apply_powerup calls on one session in the specification of _apply_powerup
MaxApplies == 2

\* Paddle.update calls on one paddle in the specification of Paddle.update
MaxPaddleUpdates == 2

\* the level indices 1..MaxGenLevel are generated in the specification of _generate_level
MaxGenLevel == 6

\* Inputs of a frame
\* clock.tick(60) / 1000.0, in milliseconds
DtChoices == {100}
\* pygame.mouse.get_pos()[0]
MouseChoices == {560}
\* the event kinds the handlers look at: MOUSEBUTTONDOWN, KEYDOWN with K_ESCAPE
EventKinds == {"click", "esc"}
\* random.choice([-200, 200]) in Ball.__init__
LaunchVx == {-200, 200}
\* PowerUpType values; 0 stands for None
PowerUpTypes == 1..6
\* (random.uniform(-200, 200), random.uniform(-300, -100)) in _create_particles:
\* one draw per burst, shared by the particles of the burst
ParticleVelChoices == {<<0, -200>>}

\* Inputs of the specification of Ball.update: ball positions (1/100 pixel) near
\* each wall, in each corner and in the open field, velocities (pixel per second)
\* towards and away from each wall, the two speed multipliers the program sets
\* (1.0, and 0.7 after Slow Ball), and frame times (milliseconds)
BallXChoices == {500, 900, 3000, 40000, 77000, 79100, 79500}
BallYChoices == {500, 900, 3000, 30000, 59900}
BallVxChoices == {-200, 0, 200}
BallVyChoices == {-300, 0, 300}
MultiplierChoices == {10, 7}
BallDtChoices == {16, 100}

\* Inputs of the specification of Brick: the cells <<y, x>> a brick is built for
BrickCellChoices == {<<0, 0>>, <<3, 4>>, <<5, 9>>}

\* Inputs of the specification of _apply_powerup: the paddle widths that
\* Expand-Paddle applications lead to, and the ball lists of a session (none,
\* one ball coming down onto the paddle, that ball and a freshly launched one)
PaddleWidthChoices == {100, 130, 160, 190, 200}
BallListChoices ==
    {<<>>,
     <<[pos |-> [x |-> 54000, y |-> 54000], vel |-> [x |-> 200, y |-> 300], speed_multiplier |-> 10]>>,
     <<[pos |-> [x |-> 54000, y |-> 54000], vel |-> [x |-> 200, y |-> 300], speed_multiplier |-> 10],
       [pos |-> [x |-> 40000, y |-> 52000], vel |-> [x |-> -200, y |-> -300], speed_multiplier |-> 10]>>}

\* Inputs of the specification of Paddle.update: paddle positions (1/100 pixel,
\* the last one beyond the field), pointer positions (pixel) inside and far
\* outside the field, frame times (milliseconds) from 0 to 0.5 s, and field widths
\* (pixel) down to the width of the widest paddle
PaddleXChoices == {0, 35000, 70000, 90000}
PaddleMouseChoices == {-900, -100, 0, 400, 900, 1700}
PaddleDtChoices == {0, 16, 100, 500}
FieldWidthChoices == {200, 800}

EventLists == UNION {[1..n -> EventKinds] : n \in 0..MaxEvents}

---------------------------------------------------------------------------
\* Arithmetic helpers

Max(a, b) == IF a >= b THEN a ELSE b
Min(a, b) == IF a <= b THEN a ELSE b
Abs(a) == IF a >= 0 THEN a ELSE -a

\* a / b for b > 0, rounded to the nearest integer (halves away from zero)
RoundDiv(a, b) == IF a >= 0 THEN (2 * a + b) \div (2 * b) ELSE -((2 * (-a) + b) \div (2 * b))

\* int() of a float coordinate given in 1/100 pixel: what pygame.Rect keeps
Trunc(c) == IF c >= 0 THEN c \div 100 ELSE -((-c) \div 100)

\* pygame.Rect(x, y, w, h) from float coordinates in 1/100 pixel and integer sizes
Rect(x, y, w, h) == [x |-> Trunc(x), y |-> Trunc(y), w |-> w, h |-> h]

\* pygame.Rect.colliderect: overlap of non-empty rectangles, touching edges do not overlap
CollideRect(a, b) ==
    /\ a.w > 0 /\ a.h > 0 /\ b.w > 0 /\ b.h > 0
    /\ a.x < b.x + b.w /\ b.x < a.x + a.w
    /\ a.y < b.y + b.h /\ b.y < a.y + a.h

---------------------------------------------------------------------------
\* Vector2D

Vector2D(x, y) == [x |-> x, y |-> y]

\* Vector2D.reflect about a normal given in thousandths: v - 2 (v . n) n
Reflect(v, n) ==
    LET dot == 2 * (v.x * n.x + v.y * n.y)
    IN  Vector2D(v.x - RoundDiv(dot * n.x, 1000000), v.y - RoundDiv(dot * n.y, 1000000))

\* vel.normalize() * vel.magnitude: the direction of vel scaled back to its own
\* length, which is vel again (the zero vector is returned unchanged by normalize)
NormalizeTimesMagnitude(v) == v

---------------------------------------------------------------------------
\* Ball

\* Ball.__init__(x, y) with the drawn launch direction vx; x, y in 1/100 pixel
Ball(x, y, vx) ==
    [pos |-> Vector2D(x, y), vel |-> Vector2D(vx, BallLaunchVy), speed_multiplier |-> 10]

\* Ball(self.width // 2, self.height - 80): the default launch position
LaunchBall(vx) == Ball(100 * (Width \div 2), 100 * (Height - 80), vx)

\* A dict that kept the first value written to a key (used to test C5)
CollisionHandlersFirstWins(left, right, top) ==
    LET entries == << <<left, "left">>, <<right, "right">>, <<top, "top">> >>
        FirstWith(k) == CHOOSE i \in 1..3 : entries[i][1] = k /\ \A j \in 1..3 : entries[j][1] = k => i <= j
    IN  [k \in {entries[i][1] : i \in 1..3} |-> entries[FirstWith(k)][2]]

\* The dict literal of Ball.update: its keys are the three conditions themselves,
\* so equal conditions are one key, and a key keeps the value written last.
CollisionHandlers(left, right, top) ==
    LET entries == << <<left, "left">>, <<right, "right">>, <<top, "top">> >>
        LastWith(k) == CHOOSE i \in 1..3 : entries[i][1] = k /\ \A j \in 1..3 : entries[j][1] = k => j <= i
    IN  [k \in {entries[i][1] : i \in 1..3} |-> entries[LastWith(k)][2]]

\* [handler() for condition, handler in collision_handlers.items() if condition]
ApplyWallHandlers(vel, handlers) ==
    IF TRUE \notin DOMAIN handlers THEN vel
    ELSE CASE handlers[TRUE] = "left"  -> [vel EXCEPT !.x = Abs(vel.x)]
           [] handlers[TRUE] = "right" -> [vel EXCEPT !.x = -Abs(vel.x)]
           [] handlers[TRUE] = "top"   -> [vel EXCEPT !.y = Abs(vel.y)]

\* Ball.update(dt, width, height): the moved ball and the ball-lost return value
BallUpdate(b, dt, width, height) ==
    LET px == b.pos.x + RoundDiv(b.vel.x * dt * b.speed_multiplier, 100)
        py == b.pos.y + RoundDiv(b.vel.y * dt * b.speed_multiplier, 100)
        handlers == CollisionHandlers(px - 100 * BallRadius <= 0,
                                      px + 100 * BallRadius >= 100 * width,
                                      py - 100 * BallRadius <= 0)
    IN  [ball |-> [b EXCEPT !.pos = Vector2D(px, py), !.vel = ApplyWallHandlers(b.vel, handlers)],
         lost |-> py > 100 * height]

---------------------------------------------------------------------------
\* Paddle

PaddleY == Height - 50

\* Paddle.__init__(width // 2 - 50, height - 50)
Paddle == [x |-> 100 * (Width \div 2 - 50), width |-> PaddleBaseWidth, vel |-> 0, sticky |-> FALSE]

\* A paddle that follows the pointer without the clamp (used to test C19)
PaddleUpdateUnclamped(p, dt, mouse_x, width) ==
    LET target_x == 100 * (mouse_x - p.width \div 2)
        distance == target_x - p.x
        vel == distance * 10
    IN  [p EXCEPT !.vel = vel, !.x = p.x + RoundDiv(vel * dt, 1000)]

\* Paddle.update(dt, mouse_x, width)
PaddleUpdate(p, dt, mouse_x, width) ==
    LET target_x == 100 * (mouse_x - p.width \div 2)
        distance == target_x - p.x
        vel == distance * 10
        x1 == p.x + RoundDiv(vel * dt, 1000)
    IN  [p EXCEPT !.vel = vel, !.x = Max(0, Min(x1, 100 * (width - p.width)))]

\* sin and cos of 10, 20, ..., 60 degrees, in thousandths
SinTable == <<174, 342, 500, 643, 766, 866>>
CosTable == <<985, 940, 866, 766, 643, 500>>
Sin10(k) == IF k = 0 THEN 0 ELSE IF k > 0 THEN SinTable[k] ELSE -SinTable[-k]
Cos10(k) == IF k = 0 THEN 1000 ELSE CosTable[Abs(k)]

\* Paddle.get_collision_normal(ball_x): relative_pos clamped to [-1, 1] and taken
\* to the nearest sixth, so that angle = relative_pos * pi / 3 is a multiple of 10 degrees
GetCollisionNormal(p, ball_x) ==
    LET sixths == RoundDiv(6 * (ball_x - (p.x + 50 * p.width)), 50 * p.width)
        relative_pos == Max(-6, Min(6, sixths))
    IN  Vector2D(Sin10(relative_pos), -Cos10(relative_pos))

---------------------------------------------------------------------------
\* Brick

\* A brick worth 100 points whatever its health (used to test C14)
BrickFlatPoints(x, y, health, powerup) ==
    [x |-> x, y |-> y, health |-> health, max_health |-> health, points |-> 100, powerup |-> powerup]

\* Brick.__init__(x, y, health) with the drawn power-up (0 is None)
Brick(x, y, health, powerup) ==
    [x |-> x, y |-> y, health |-> health, max_health |-> health,
     points |-> health * 100, powerup |-> powerup]

\* A hit that reports destruction only below zero (used to test C12)
BrickHitBelowZero(b) == [brick |-> [b EXCEPT !.health = @ - 1], destroyed |-> b.health - 1 < 0]

\* A hit that reports destruction one hit early (used to test C13)
BrickHitEarly(b) == [brick |-> [b EXCEPT !.health = @ - 1], destroyed |-> b.health - 1 <= 1]

\* Brick.hit(): the brick afterwards and the return value
BrickHit(b) == [brick |-> [b EXCEPT !.health = @ - 1], destroyed |-> b.health - 1 <= 0]

---------------------------------------------------------------------------
\* PowerUp

\* PowerUp.__init__(x, y, powerup_type); x, y in pixels
PowerUp(x, y, type) == [pos |-> Vector2D(100 * x, 100 * y), type |-> type, active |-> TRUE]

\* PowerUp.update(dt, height): the moved power-up and the out-of-field return value
PowerUpUpdate(u, dt, height) ==
    LET py == u.pos.y + RoundDiv(PowerUpFallSpeed * dt, 10)
    IN  [powerup |-> [u EXCEPT !.pos.y = py], out |-> py > 100 * height]

---------------------------------------------------------------------------
\* Particle

\* Particle.__init__(x, y, vel, color); x, y in 1/100 pixel
Particle(x, y, vel) == [pos |-> Vector2D(x, y), vel |-> vel, life |-> 1000]

\* Particle.update(dt): the particle afterwards and the life > 0 return value
ParticleUpdate(q, dt) ==
    LET moved == [q EXCEPT !.pos = Vector2D(q.pos.x + RoundDiv(q.vel.x * dt, 10),
                                            q.pos.y + RoundDiv(q.vel.y * dt, 10)),
                           !.vel.y = @ + RoundDiv(ParticleGravity * dt, 1000),
                           !.life = @ - 2 * dt]
    IN  [particle |-> moved, alive |-> moved.life > 0]

\* _create_particles(x, y, count): the particles appended, for the drawn velocity
CreateParticles(x, y, count, v) == [i \in 1..count |-> Particle(x, y, Vector2D(v[1], v[2]))]

---------------------------------------------------------------------------
\* Level generation

RemoveAt(seq, i) == SubSeq(seq, 1, i - 1) \o SubSeq(seq, i + 1, Len(seq))

\* rows = min(5 + level, 10)
LevelRows(lvl) == Min(5 + lvl, BrickMaxRows)

\* The cells <<y, x>> that the omission draw (random.random() > 0.1 per cell) may
\* keep in this model, in generation order (y outer, x inner); every other cell
\* is drawn as missing.  Only the first level keeps bricks.
CandidateCells(rows) ==
    IF rows = Min(5 + 1, BrickMaxRows) THEN << <<rows - 2, 7>>, <<rows - 1, 7>> >> ELSE <<>>

\* The power-up draws of Brick.__init__ (None, or one of the six kinds) taken in
\* this model for the brick of a cell: only a brick of the bottom row may carry one.
PowerUpDraws(cell, rows) == IF cell[1] = rows - 1 THEN {0} \cup PowerUpTypes ELSE {0}

\* A brick whose health is not capped (used to test C20)
CellBrickUncapped(cell, rows, powerup) ==
    Brick(cell[2] * 78 + 10, cell[1] * 30 + 60, rows - cell[1], powerup)

\* Brick(x * 78 + 10, y * 30 + 60, min(rows - y, 5)) for the cell <<y, x>>
CellBrick(cell, rows, powerup) ==
    Brick(cell[2] * 78 + 10, cell[1] * 30 + 60, Min(rows - cell[1], BrickMaxHealth), powerup)

\* The brick lists the comprehension can build from the cells, each cell kept or
\* missing, each kept brick with its own power-up draw
RECURSIVE BrickLists(_, _)
BrickLists(cells, rows) ==
    IF cells = <<>> THEN {<<>>}
    ELSE LET rest == BrickLists(Tail(cells), rows)
         IN  rest \cup {<<CellBrick(Head(cells), rows, pu)>> \o r :
                           pu \in PowerUpDraws(Head(cells), rows), r \in rest}

\* _generate_level(level): the possible values of self.bricks afterwards
GenerateLevel(lvl) == BrickLists(CandidateCells(LevelRows(lvl)), LevelRows(lvl))

\* The cells <<y, x>> the comprehension visits, in its order:
\* for y in range(rows) for x in range(cols)
GridCells(rows) ==
    [k \in 1..rows * BrickCols |-> <<(k - 1) \div BrickCols, (k - 1) % BrickCols>>]

\* The level indices handed to _generate_level(level) in its specification: the
\* indices of play, and the index -5 for which rows = min(5 + level, 10) is 0
GenLevelChoices == {-5} \cup 1..MaxGenLevel

\* self.bricks after _generate_level(level) when the omission draw
\* random.random() > 0.1 holds for exactly the cells of kept (no brick draws a power-up)
LevelBricks(lvl, kept) ==
    LET rows == LevelRows(lvl)
        cells == SelectSeq(GridCells(rows), LAMBDA c : c \in kept)
    IN  [k \in 1..Len(cells) |-> CellBrick(cells[k], rows, 0)]

\* The outcomes of the omission draws taken in the specification of
\* _generate_level: every cell kept, all but one kept, one kept, none kept
KeptChoices(rows) ==
    LET all == {GridCells(rows)[k] : k \in 1..rows * BrickCols}
    IN  {all, {}} \cup {all \ {c} : c \in all} \cup {{c} : c \in all}

---------------------------------------------------------------------------
\* The history record of a frame

Nothing == [state |-> "NONE"]

Log(handler, hits) ==
    [handler |-> handler,      \* the handler the frame ran
     dt |-> 0,                 \* the frame time handed to the handler, in ms
     hits |-> hits,            \* paddle bounces since construction
     started |-> FALSE,        \* _handle_menu saw a MOUSEBUTTONDOWN
     resumed |-> FALSE,        \* _handle_paused saw an ESCAPE
     paused |-> FALSE,         \* _handle_playing saw an ESCAPE
     restarts |-> 0,           \* __init__ calls made by _handle_game_over / _handle_victory
     emptied |-> FALSE,        \* the ball loop removed the last ball
     afterLoop |-> Nothing,    \* lives, balls, state right after the ball loop
     extraLives |-> 0,         \* Extra-Life effects applied
     cleared |-> FALSE,        \* the victory check found no brick
     destroyed |-> <<>>,       \* the bricks removed by ball hits, as they were before the hit
     bumped |-> 0,             \* ball hits that left the brick in place
     applied |-> <<>>,         \* the kinds of the power-ups applied, in order
     beforeVictory |-> Nothing] \* score, lives, level, state right before the victory check

---------------------------------------------------------------------------
\* ArkanoidGame

\* ArkanoidGame.__init__: the possible sessions after construction
NewGames ==
    {[state |-> "MENU", score |-> 0, lives |-> InitialLives, level |-> 1, paddle |-> Paddle,
      balls |-> <<LaunchBall(vx)>>, bricks |-> b, particles |-> <<>>, powerups |-> <<>>] :
        vx \in LaunchVx, b \in GenerateLevel(1)}

\* _create_particles appended to self.particles
WithParticles(g, x, y, count, v) == [g EXCEPT !.particles = @ \o CreateParticles(x, y, count, v)]

\* _handle_collision, paddle part (lines 323-331), for ball i
PaddleBounce(g, i, v) ==
    LET ball == g.balls[i]
        normal == GetCollisionNormal(g.paddle, ball.pos.x)
        vel1 == NormalizeTimesMagnitude(Reflect(ball.vel, normal))
        py == 100 * (PaddleY - BallRadius)
        vel2 == [vel1 EXCEPT !.x = @ + RoundDiv(g.paddle.vel * 3, 1000)]
        g1 == [g EXCEPT !.balls[i].vel = vel2, !.balls[i].pos.y = py, !.log.hits = @ + 1]
    IN  WithParticles(g1, ball.pos.x, py, 5, v)

\* A brick loop that takes the last overlapping brick (used to test C24)
LastBrickHit(bs, ball_rect) ==
    LET hit == {j \in 1..Len(bs) : CollideRect(Rect(100 * bs[j].x, 100 * bs[j].y, BrickWidth, BrickHeight), ball_rect)}
    IN  IF hit = {} THEN 0 ELSE CHOOSE j \in hit : \A k \in hit : j >= k

\* The first brick of self.bricks whose rectangle overlaps ball_rect, 0 if none
FirstBrickHit(bs, ball_rect) ==
    LET hit == {j \in 1..Len(bs) : CollideRect(Rect(100 * bs[j].x, 100 * bs[j].y, BrickWidth, BrickHeight), ball_rect)}
    IN  IF hit = {} THEN 0 ELSE CHOOSE j \in hit : \A k \in hit : j <= k

\* Bounce direction (lines 347-356) of ball i off the brick
BrickBounce(g, i, brick) ==
    LET ball == g.balls[i]
        diff_x == ball.pos.x - 100 * (brick.x + BrickWidth \div 2)
        diff_y == ball.pos.y - 100 * (brick.y + BrickHeight \div 2)
    IN  IF Abs(diff_x) > Abs(diff_y)
        THEN [g EXCEPT !.balls[i].vel.x = -@]
        ELSE [g EXCEPT !.balls[i].vel.y = -@]

\* _handle_collision, brick part (lines 333-357), for ball i
BrickCollisions(g, i, ball_rect) ==
    LET j == FirstBrickHit(g.bricks, ball_rect)
    IN  IF j = 0 THEN {g}
        ELSE LET brick == g.bricks[j]
                 h == BrickHit(brick)
                 cx == brick.x + BrickWidth \div 2
                 cy == brick.y + BrickHeight \div 2
                 removed == [g EXCEPT !.bricks = RemoveAt(@, j), !.score = @ + brick.points,
                                      !.log.destroyed = Append(@, brick)]
                 spawned == IF brick.powerup = 0 THEN removed
                            ELSE [removed EXCEPT !.powerups = Append(@, PowerUp(cx, cy, brick.powerup))]
             IN  IF h.destroyed
                 THEN {BrickBounce(WithParticles(spawned, 100 * cx, 100 * cy, 10, v), i, brick) :
                          v \in ParticleVelChoices}
                 ELSE {BrickBounce([g EXCEPT !.bricks[j] = h.brick, !.log.bumped = @ + 1], i, brick)}

\* _handle_collision(ball, dt) for ball i of self.balls
HandleCollision(g, i) ==
    LET ball == g.balls[i]
        paddle_rect == Rect(g.paddle.x, 100 * PaddleY, g.paddle.width, PaddleHeight)
        ball_rect == Rect(ball.pos.x - 100 * BallRadius, ball.pos.y - 100 * BallRadius,
                          BallRadius * 2, BallRadius * 2)
        afterPaddle == IF CollideRect(paddle_rect, ball_rect) /\ ball.vel.y > 0
                       THEN {PaddleBounce(g, i, v) : v \in ParticleVelChoices}
                       ELSE {g}
    IN  UNION {BrickCollisions(h, i, ball_rect) : h \in afterPaddle}

\* A ball loop that launches a new ball while lives >= 0 (used to test C26)
RECURSIVE BallLoopRespawnsAtZero(_, _, _, _)
BallLoopRespawnsAtZero(g, i, n, dt) ==
    IF n = 0 THEN {g}
    ELSE LET u == BallUpdate(g.balls[i], dt, Width, Height)
             removed == [g EXCEPT !.balls = RemoveAt(@, i)]
             emptied == [removed EXCEPT !.lives = @ - 1, !.log.emptied = TRUE]
         IN  IF u.lost
             THEN IF removed.balls # <<>>
                  THEN BallLoopRespawnsAtZero(removed, i, n - 1, dt)
                  ELSE IF emptied.lives >= 0
                       THEN UNION {BallLoopRespawnsAtZero([emptied EXCEPT !.balls = <<LaunchBall(vx)>>],
                                                          i, n - 1, dt) : vx \in LaunchVx}
                       ELSE BallLoopRespawnsAtZero([emptied EXCEPT !.state = "GAME_OVER"], i, n - 1, dt)
             ELSE UNION {BallLoopRespawnsAtZero(h, i + 1, n - 1, dt) :
                            h \in HandleCollision([g EXCEPT !.balls[i] = u.ball], i)}

\* The ball loop of _handle_playing (lines 437-447) over the snapshot self.balls[:]:
\* n balls of the snapshot are still to be visited, the next one is self.balls[i]
RECURSIVE BallLoop(_, _, _, _)
BallLoop(g, i, n, dt) ==
    IF n = 0 THEN {g}
    ELSE LET u == BallUpdate(g.balls[i], dt, Width, Height)
             removed == [g EXCEPT !.balls = RemoveAt(@, i)]
             emptied == [removed EXCEPT !.lives = @ - 1, !.log.emptied = TRUE]
         IN  IF u.lost
             THEN IF removed.balls # <<>>
                  THEN BallLoop(removed, i, n - 1, dt)
                  ELSE IF emptied.lives > 0
                       THEN UNION {BallLoop([emptied EXCEPT !.balls = <<LaunchBall(vx)>>], i, n - 1, dt) :
                                      vx \in LaunchVx}
                       ELSE BallLoop([emptied EXCEPT !.state = "GAME_OVER"], i, n - 1, dt)
             ELSE UNION {BallLoop(h, i + 1, n - 1, dt) :
                            h \in HandleCollision([g EXCEPT !.balls[i] = u.ball], i)}

\* self.particles = [p for p in self.particles if p.update(dt)]
UpdateParticles(ps, dt) ==
    LET updated == [k \in 1..Len(ps) |-> ParticleUpdate(ps[k], dt)]
        kept == SelectSeq(updated, LAMBDA r : r.alive)
    IN  [k \in 1..Len(kept) |-> kept[k].particle]

\* An Extra-Life effect worth two lives (used to test C10)
ApplyPowerupTwoLives(g, type) ==
    IF type = 6 THEN {[g EXCEPT !.lives = @ + 2, !.log.extraLives = @ + 1, !.score = @ + PowerUpBonus]}
    ELSE {[g EXCEPT !.score = @ + PowerUpBonus]}

\* A collection that costs 50 points instead of granting them (used to test C16)
ApplyPowerupPenalty(g, type) ==
    IF type = 6 THEN {[g EXCEPT !.lives = @ + 1, !.log.extraLives = @ + 1, !.score = @ - PowerUpBonus]}
    ELSE {[g EXCEPT !.score = @ - PowerUpBonus]}

\* A collection bonus granted only for the kinds that have an effect (used to test C15)
ApplyPowerupLaserNoBonus(g, type) ==
    LET effect ==
            CASE type = 1 -> {[g EXCEPT !.paddle.width = Min(@ + PaddleExpandStep, PaddleMaxWidth)]}
              [] type = 2 -> IF g.balls = <<>> THEN {g}
                             ELSE {[g EXCEPT !.balls = @ \o <<Ball(g.balls[1].pos.x, g.balls[1].pos.y, vx1),
                                                              Ball(g.balls[1].pos.x, g.balls[1].pos.y, vx2)>>] :
                                      vx1 \in LaunchVx, vx2 \in LaunchVx}
              [] type = 3 -> {[g EXCEPT !.balls = [k \in 1..Len(g.balls) |->
                                                      [g.balls[k] EXCEPT !.speed_multiplier = 7]]]}
              [] type = 5 -> {[g EXCEPT !.paddle.sticky = TRUE]}
              [] type = 6 -> {[g EXCEPT !.lives = @ + 1, !.log.extraLives = @ + 1]}
              [] OTHER    -> {g}
    IN  IF type = 4 THEN effect ELSE {[e EXCEPT !.score = @ + PowerUpBonus] : e \in effect}

\* An Expand-Paddle effect without the cap (used to test C17)
ApplyPowerupUncapped(g, type) ==
    LET effect ==
            CASE type = 1 -> {[g EXCEPT !.paddle.width = @ + PaddleExpandStep]}
              [] type = 2 -> IF g.balls = <<>> THEN {g}
                             ELSE {[g EXCEPT !.balls = @ \o <<Ball(g.balls[1].pos.x, g.balls[1].pos.y, vx1),
                                                              Ball(g.balls[1].pos.x, g.balls[1].pos.y, vx2)>>] :
                                      vx1 \in LaunchVx, vx2 \in LaunchVx}
              [] type = 3 -> {[g EXCEPT !.balls = [k \in 1..Len(g.balls) |->
                                                      [g.balls[k] EXCEPT !.speed_multiplier = 7]]]}
              [] type = 5 -> {[g EXCEPT !.paddle.sticky = TRUE]}
              [] type = 6 -> {[g EXCEPT !.lives = @ + 1, !.log.extraLives = @ + 1]}
              [] OTHER    -> {g}
    IN  {[e EXCEPT !.score = @ + PowerUpBonus] : e \in effect}

\* A Multi-Ball effect that launches the new balls from the default position (used to test C18)
ApplyPowerupFromLaunch(g, type) ==
    LET effect ==
            CASE type = 1 -> {[g EXCEPT !.paddle.width = Min(@ + PaddleExpandStep, PaddleMaxWidth)]}
              [] type = 2 -> IF g.balls = <<>> THEN {g}
                             ELSE {[g EXCEPT !.balls = @ \o <<LaunchBall(vx1), LaunchBall(vx2)>>] :
                                      vx1 \in LaunchVx, vx2 \in LaunchVx}
              [] type = 3 -> {[g EXCEPT !.balls = [k \in 1..Len(g.balls) |->
                                                      [g.balls[k] EXCEPT !.speed_multiplier = 7]]]}
              [] type = 5 -> {[g EXCEPT !.paddle.sticky = TRUE]}
              [] type = 6 -> {[g EXCEPT !.lives = @ + 1, !.log.extraLives = @ + 1]}
              [] OTHER    -> {g}
    IN  {[e EXCEPT !.score = @ + PowerUpBonus] : e \in effect}

\* _apply_powerup(powerup_type): the possible sessions afterwards
ApplyPowerup(g, type) ==
    LET effect ==
            CASE type = 1 -> {[g EXCEPT !.paddle.width = Min(@ + PaddleExpandStep, PaddleMaxWidth)]}
              [] type = 2 -> IF g.balls = <<>> THEN {g}
                             ELSE {[g EXCEPT !.balls = @ \o <<Ball(g.balls[1].pos.x, g.balls[1].pos.y, vx1),
                                                              Ball(g.balls[1].pos.x, g.balls[1].pos.y, vx2)>>] :
                                      vx1 \in LaunchVx, vx2 \in LaunchVx}
              [] type = 3 -> {[g EXCEPT !.balls = [k \in 1..Len(g.balls) |->
                                                      [g.balls[k] EXCEPT !.speed_multiplier = 7]]]}
              [] type = 5 -> {[g EXCEPT !.paddle.sticky = TRUE]}
              [] type = 6 -> {[g EXCEPT !.lives = @ + 1, !.log.extraLives = @ + 1]}
              [] OTHER    -> {g}
    IN  {[e EXCEPT !.score = @ + PowerUpBonus] : e \in effect}

\* A loop that applies a power-up on the paddle and leaves it in the list (used to test C25)
RECURSIVE PowerupLoopKeepsCollected(_, _, _, _, _)
PowerupLoopKeepsCollected(g, i, n, dt, paddle_rect) ==
    IF n = 0 THEN {g}
    ELSE LET u == PowerUpUpdate(g.powerups[i], dt, Height)
             moved == [g EXCEPT !.powerups[i] = u.powerup]
             powerup_rect == Rect(u.powerup.pos.x - 100 * PowerUpSize, u.powerup.pos.y - 100 * PowerUpSize,
                                  PowerUpSize * 2, PowerUpSize * 2)
         IN  IF u.out
             THEN PowerupLoopKeepsCollected([moved EXCEPT !.powerups = RemoveAt(@, i)], i, n - 1, dt, paddle_rect)
             ELSE IF CollideRect(paddle_rect, powerup_rect)
                  THEN UNION {PowerupLoopKeepsCollected(
                                  WithParticles(a, u.powerup.pos.x, u.powerup.pos.y, 15, v),
                                  i + 1, n - 1, dt, paddle_rect) :
                                 a \in ApplyPowerup([moved EXCEPT !.log.applied = Append(@, u.powerup.type)],
                                                     u.powerup.type),
                                 v \in ParticleVelChoices}
                  ELSE PowerupLoopKeepsCollected(moved, i + 1, n - 1, dt, paddle_rect)

\* The loop of _handle_powerups (lines 370-380) over the snapshot self.powerups[:]:
\* n power-ups of the snapshot are still to be visited, the next one is self.powerups[i]
RECURSIVE PowerupLoop(_, _, _, _, _)
PowerupLoop(g, i, n, dt, paddle_rect) ==
    IF n = 0 THEN {g}
    ELSE LET u == PowerUpUpdate(g.powerups[i], dt, Height)
             moved == [g EXCEPT !.powerups[i] = u.powerup]
             powerup_rect == Rect(u.powerup.pos.x - 100 * PowerUpSize, u.powerup.pos.y - 100 * PowerUpSize,
                                  PowerUpSize * 2, PowerUpSize * 2)
         IN  IF u.out
             THEN PowerupLoop([moved EXCEPT !.powerups = RemoveAt(@, i)], i, n - 1, dt, paddle_rect)
             ELSE IF CollideRect(paddle_rect, powerup_rect)
                  THEN UNION {PowerupLoop(WithParticles([a EXCEPT !.powerups = RemoveAt(@, i)],
                                                        u.powerup.pos.x, u.powerup.pos.y, 15, v),
                                          i, n - 1, dt, paddle_rect) :
                                 a \in ApplyPowerup([moved EXCEPT !.log.applied = Append(@, u.powerup.type)],
                                                     u.powerup.type),
                                 v \in ParticleVelChoices}
                  ELSE PowerupLoop(moved, i + 1, n - 1, dt, paddle_rect)

\* _handle_powerups(dt)
HandlePowerups(g, dt) ==
    PowerupLoop(g, 1, Len(g.powerups), dt,
                Rect(g.paddle.x, 100 * PaddleY, g.paddle.width, PaddleHeight))

\* A victory check that compares with >= (used to test C6)
CheckVictoryAtFinalLevel(g) ==
    LET seen == [g EXCEPT !.log.beforeVictory = [score |-> g.score, lives |-> g.lives, level |-> g.level,
                                                 state |-> g.state]]
        next == [seen EXCEPT !.level = @ + 1, !.log.cleared = TRUE]
    IN  IF g.bricks # <<>> THEN {seen}
        ELSE IF next.level >= FinalLevel
             THEN {[next EXCEPT !.state = "VICTORY"]}
             ELSE {[next EXCEPT !.bricks = b, !.balls = <<LaunchBall(vx)>>] :
                      b \in GenerateLevel(next.level), vx \in LaunchVx}

\* A victory check that leaves the balls in play on a level change (used to test C7)
CheckVictoryKeepsBalls(g) ==
    LET seen == [g EXCEPT !.log.beforeVictory = [score |-> g.score, lives |-> g.lives, level |-> g.level,
                                                 state |-> g.state]]
        next == [seen EXCEPT !.level = @ + 1, !.log.cleared = TRUE]
    IN  IF g.bricks # <<>> THEN {seen}
        ELSE IF next.level > FinalLevel
             THEN {[next EXCEPT !.state = "VICTORY"]}
             ELSE {[next EXCEPT !.bricks = b] : b \in GenerateLevel(next.level)}

\* The victory check of _handle_playing (lines 453-459)
CheckVictory(g) ==
    LET seen == [g EXCEPT !.log.beforeVictory = [score |-> g.score, lives |-> g.lives, level |-> g.level,
                                                 state |-> g.state]]
        next == [seen EXCEPT !.level = @ + 1, !.log.cleared = TRUE]
    IN  IF g.bricks # <<>> THEN {seen}
        ELSE IF next.level > FinalLevel
             THEN {[next EXCEPT !.state = "VICTORY"]}
             ELSE {[next EXCEPT !.bricks = b, !.balls = <<LaunchBall(vx)>>] :
                      b \in GenerateLevel(next.level), vx \in LaunchVx}

\* The pause check of _handle_playing (lines 461-463)
CheckPause(g, events) ==
    IF \E k \in 1..Len(events) : events[k] = "esc"
    THEN [g EXCEPT !.state = "PAUSED", !.log.paused = TRUE]
    ELSE g

\* _handle_playing up to the victory check (lines 434-459)
PlayingUpdates(g, dt, mouse_x) ==
    LET moved == [g EXCEPT !.paddle = PaddleUpdate(@, dt, mouse_x, Width)]
        looped == {[h EXCEPT !.log.afterLoop = [lives |-> h.lives, balls |-> h.balls, state |-> h.state]] :
                      h \in BallLoop(moved, 1, Len(moved.balls), dt)}
        aged == {[h EXCEPT !.particles = UpdateParticles(@, dt)] : h \in looped}
        collected == UNION {HandlePowerups(h, dt) : h \in aged}
    IN  UNION {CheckVictory(h) : h \in collected}

\* The event loops below run over the set gs of sessions the events so far can
\* have led to (the random draws differ), one event at a time.

\* _handle_menu(dt, events), the event loop (lines 426-429)
RECURSIVE MenuEvents(_, _)
MenuEvents(gs, events) ==
    IF events = <<>> THEN gs
    ELSE IF Head(events) = "click"
         THEN MenuEvents(UNION {{[g EXCEPT !.state = "PLAYING", !.bricks = b, !.log.started = TRUE] :
                                    b \in GenerateLevel(g.level)} : g \in gs},
                         Tail(events))
         ELSE MenuEvents(gs, Tail(events))

HandleMenu(g, events) == MenuEvents({g}, events)

\* _handle_paused(dt, events), the event loop (lines 480-482)
RECURSIVE PausedEvents(_, _)
PausedEvents(gs, events) ==
    IF events = <<>> THEN gs
    ELSE IF Head(events) = "esc"
         THEN PausedEvents({[g EXCEPT !.state = "PLAYING", !.log.resumed = TRUE] : g \in gs}, Tail(events))
         ELSE PausedEvents(gs, Tail(events))

\* A pause handler that drops the particles (used to test C8)
HandlePausedDropsParticles(g, events) == PausedEvents({[g EXCEPT !.particles = <<>>]}, events)

HandlePaused(g, events) == PausedEvents({g}, events)

\* A restart that goes straight to Playing (used to test C3)
ReinitToPlaying(g) ==
    {[x \in DOMAIN n \cup {"log"} |->
         IF x = "log" THEN [g.log EXCEPT !.hits = 0, !.restarts = @ + 1]
         ELSE IF x = "state" THEN "PLAYING" ELSE n[x]] : n \in NewGames}

\* A restart that keeps the score (used to test C9)
ReinitKeepsScore(g) ==
    {[x \in DOMAIN n \cup {"log"} |->
         IF x = "log" THEN [g.log EXCEPT !.hits = 0, !.restarts = @ + 1]
         ELSE IF x = "score" THEN g.score ELSE n[x]] : n \in NewGames}

\* self.__init__(self.width, self.height) run from a handler: every field is set anew
Reinit(g) ==
    {[x \in DOMAIN n \cup {"log"} |->
         IF x = "log" THEN [g.log EXCEPT !.hits = 0, !.restarts = @ + 1] ELSE n[x]] : n \in NewGames}

\* _handle_game_over(dt, events), the event loop (lines 497-499)
RECURSIVE GameOverEvents(_, _)
GameOverEvents(gs, events) ==
    IF events = <<>> THEN gs
    ELSE IF Head(events) = "click"
         THEN GameOverEvents(UNION {Reinit(g) : g \in gs}, Tail(events))
         ELSE GameOverEvents(gs, Tail(events))

HandleGameOver(g, events) == GameOverEvents({g}, events)

\* _handle_victory(dt, events), the event loop (lines 514-516)
RECURSIVE VictoryEvents(_, _)
VictoryEvents(gs, events) ==
    IF events = <<>> THEN gs
    ELSE IF Head(events) = "click"
         THEN VictoryEvents(UNION {Reinit(g) : g \in gs}, Tail(events))
         ELSE VictoryEvents(gs, Tail(events))

HandleVictory(g, events) == VictoryEvents({g}, events)

---------------------------------------------------------------------------
\* The frames of ArkanoidGame.run

\* The session as one record
Game ==
    [state |-> state, score |-> score, lives |-> lives, level |-> level, paddle |-> paddle,
     balls |-> balls, bricks |-> bricks, particles |-> particles, powerups |-> powerups]

\* The session entering a handler, with the frame's history record
Entering(handler) ==
    [x \in DOMAIN Game \cup {"log"} |-> IF x = "log" THEN Log(handler, tick.hits) ELSE Game[x]]

\* dt = self.clock.tick(60) / 1000.0; handler(dt, events): the session entering
\* a handler with the time elapsed since the previous frame as its frame time
EnteringAt(handler, dt) == [Entering(handler) EXCEPT !.log.dt = dt]

\* The session a handler leaves behind
Leaving(g) ==
    /\ state' = g.state
    /\ score' = g.score
    /\ lives' = g.lives
    /\ level' = g.level
    /\ paddle' = g.paddle
    /\ balls' = g.balls
    /\ bricks' = g.bricks
    /\ particles' = g.particles
    /\ powerups' = g.powerups
    /\ tick' = g.log
    /\ UNCHANGED probe

NoProbe == [kind |-> "none"]

Init ==
    /\ \E n \in NewGames :
        /\ state = n.state
        /\ score = n.score
        /\ lives = n.lives
        /\ level = n.level
        /\ paddle = n.paddle
        /\ balls = n.balls
        /\ bricks = n.bricks
        /\ particles = n.particles
        /\ powerups = n.powerups
    /\ tick = Log("init", 0)
    /\ probe = NoProbe

\* A Playing frame is taken while the model's bounds allow it
WithinBounds == level < MaxLevel /\ tick.hits < MaxPaddleHits

MenuFrame ==
    /\ state = "MENU"
    /\ \E dt \in DtChoices, events \in EventLists :
        \E g \in HandleMenu(EnteringAt("menu", dt), events) : Leaving(g)

PlayingFrame ==
    /\ state = "PLAYING" /\ WithinBounds
    /\ \E dt \in DtChoices, mouse_x \in MouseChoices :
        LET updates == PlayingUpdates(EnteringAt("playing", dt), dt, mouse_x)
        IN  \E events \in EventLists, g \in updates : Leaving(CheckPause(g, events))

PausedFrame ==
    /\ state = "PAUSED"
    /\ \E dt \in DtChoices, events \in EventLists :
        \E g \in HandlePaused(EnteringAt("paused", dt), events) : Leaving(g)

GameOverFrame ==
    /\ state = "GAME_OVER"
    /\ \E dt \in DtChoices, events \in EventLists :
        \E g \in HandleGameOver(EnteringAt("game_over", dt), events) : Leaving(g)

VictoryFrame ==
    /\ state = "VICTORY"
    /\ \E dt \in DtChoices, events \in EventLists :
        \E g \in HandleVictory(EnteringAt("victory", dt), events) : Leaving(g)

\* handler = self.state_handlers.get(self.state); handler(dt, events)
Next == MenuFrame \/ PlayingFrame \/ PausedFrame \/ GameOverFrame \/ VictoryFrame

Spec == Init /\ [][Next]_vars

---------------------------------------------------------------------------
\* Ball.update on its own: one ball, constructed anywhere on the field with any
\* of the velocities, updated MaxUpdates times with one frame time.  No session
\* exists; the session variables hold placeholders.

InitBall ==
    /\ state = "NONE" /\ score = 0 /\ lives = 0 /\ level = 0
    /\ paddle = Paddle
    /\ balls = <<>> /\ bricks = <<>> /\ particles = <<>> /\ powerups = <<>>
    /\ tick = Log("none", 0)
    /\ \E x \in BallXChoices, y \in BallYChoices, vx \in BallVxChoices, vy \in BallVyChoices,
          m \in MultiplierChoices, dt \in BallDtChoices :
          LET b == [pos |-> Vector2D(x, y), vel |-> Vector2D(vx, vy), speed_multiplier |-> m]
          IN  probe = [kind |-> "ball", ball |-> b, before |-> b, dt |-> dt, lost |-> FALSE, updates |-> 0]

\* ball.update(dt, self.width, self.height)
UpdateBall ==
    /\ probe.kind = "ball" /\ probe.updates < MaxUpdates
    /\ LET u == BallUpdate(probe.ball, probe.dt, Width, Height)
       IN  probe' = [probe EXCEPT !.before = probe.ball, !.ball = u.ball, !.lost = u.lost,
                                  !.updates = @ + 1]
    /\ UNCHANGED <<state, score, lives, level, paddle, balls, bricks, particles, powerups, tick>>

NextBall == UpdateBall

SpecBall == InitBall /\ [][NextBall]_vars

\* The wall conditions of Ball.update (lines 124-126) at the ball's position
TouchesLeft(b) == b.pos.x - 100 * BallRadius <= 0
TouchesRight(b) == b.pos.x + 100 * BallRadius >= 100 * Width
TouchesTop(b) == b.pos.y - 100 * BallRadius <= 0

---------------------------------------------------------------------------
\* Brick on its own: one brick, constructed with any health from 1 to 5 and any
\* power-up draw, hit MaxHits times; probe.returns lists the return values of
\* the hit() calls so far.

InitBrick ==
    /\ state = "NONE" /\ score = 0 /\ lives = 0 /\ level = 0
    /\ paddle = Paddle
    /\ balls = <<>> /\ bricks = <<>> /\ particles = <<>> /\ powerups = <<>>
    /\ tick = Log("none", 0)
    /\ \E cell \in BrickCellChoices, health \in 1..BrickMaxHealth, pu \in {0} \cup PowerUpTypes :
          probe = [kind |-> "brick", brick |-> Brick(cell[2] * 78 + 10, cell[1] * 30 + 60, health, pu),
                   returns |-> <<>>]

\* brick.hit()
HitBrick ==
    /\ probe.kind = "brick" /\ Len(probe.returns) < MaxHits
    /\ LET h == BrickHit(probe.brick)
       IN  probe' = [probe EXCEPT !.brick = h.brick, !.returns = Append(@, h.destroyed)]
    /\ UNCHANGED <<state, score, lives, level, paddle, balls, bricks, particles, powerups, tick>>

NextBrick == HitBrick

SpecBrick == InitBrick /\ [][NextBrick]_vars

---------------------------------------------------------------------------
\* _apply_powerup on its own: a session in play with any of the paddle widths
\* and ball lists, to which power-ups of any kind are applied MaxApplies times.
\* probe.type is the kind applied last, probe.before the session before it.

InitPowerup ==
    /\ state = "PLAYING" /\ score = 0 /\ lives = InitialLives /\ level = 1
    /\ \E w \in PaddleWidthChoices : paddle = [Paddle EXCEPT !.width = w]
    /\ balls \in BallListChoices
    /\ bricks \in {b \in GenerateLevel(1) : Len(b) = 2 /\ \A i \in 1..2 : b[i].powerup = 0}
    /\ particles = <<>> /\ powerups = <<>>
    /\ tick = Log("none", 0)
    /\ probe = [kind |-> "powerup", applies |-> 0, type |-> 0, before |-> Nothing]

\* self._apply_powerup(powerup.type)
ApplyStep ==
    /\ probe.kind = "powerup" /\ probe.applies < MaxApplies
    /\ \E type \in PowerUpTypes :
          \E a \in ApplyPowerup([Entering("apply") EXCEPT !.log.applied = <<type>>], type) :
              /\ state' = a.state /\ score' = a.score /\ lives' = a.lives /\ level' = a.level
              /\ paddle' = a.paddle /\ balls' = a.balls /\ bricks' = a.bricks
              /\ particles' = a.particles /\ powerups' = a.powerups
              /\ tick' = a.log
              /\ probe' = [probe EXCEPT !.applies = @ + 1, !.type = type, !.before = Game]

NextPowerup == ApplyStep

SpecPowerup == InitPowerup /\ [][NextPowerup]_vars

---------------------------------------------------------------------------
\* Paddle.update on its own: one paddle of any of the widths at any of the
\* positions, updated MaxPaddleUpdates times with one pointer position, frame
\* time and field width.

InitPaddle ==
    /\ state = "NONE" /\ score = 0 /\ lives = 0 /\ level = 0
    /\ \E x \in PaddleXChoices, w \in PaddleWidthChoices : paddle = [Paddle EXCEPT !.x = x, !.width = w]
    /\ balls = <<>> /\ bricks = <<>> /\ particles = <<>> /\ powerups = <<>>
    /\ tick = Log("none", 0)
    /\ \E mouse_x \in PaddleMouseChoices, dt \in PaddleDtChoices, width \in FieldWidthChoices :
          probe = [kind |-> "paddle", mouse_x |-> mouse_x, dt |-> dt, width |-> width, updates |-> 0]

\* paddle.update(dt, mouse_x, width)
UpdatePaddle ==
    /\ probe.kind = "paddle" /\ probe.updates < MaxPaddleUpdates
    /\ paddle' = PaddleUpdate(paddle, probe.dt, probe.mouse_x, probe.width)
    /\ probe' = [probe EXCEPT !.updates = @ + 1]
    /\ UNCHANGED <<state, score, lives, level, balls, bricks, particles, powerups, tick>>

NextPaddle == UpdatePaddle

SpecPaddle == InitPaddle /\ [][NextPaddle]_vars

---------------------------------------------------------------------------
\* _generate_level on its own: a session at any level index from 1 to
\* MaxGenLevel with self.bricks = [], as __init__ leaves it before the call, and
\* one call with any of the outcomes of the omission draws.

InitLevel ==
    /\ state = "MENU" /\ score = 0 /\ lives = InitialLives
    /\ level \in GenLevelChoices
    /\ paddle = Paddle
    /\ \E vx \in LaunchVx : balls = <<LaunchBall(vx)>>
    /\ bricks = <<>> /\ particles = <<>> /\ powerups = <<>>
    /\ tick = Log("none", 0)
    /\ \E kept \in KeptChoices(LevelRows(level)) :
          probe = [kind |-> "level", kept |-> kept, generated |-> FALSE]

\* self._generate_level(self.level)
GenerateStep ==
    /\ probe.kind = "level" /\ ~probe.generated
    /\ bricks' = LevelBricks(level, probe.kept)
    /\ probe' = [probe EXCEPT !.generated = TRUE]
    /\ UNCHANGED <<state, score, lives, level, paddle, balls, particles, powerups, tick>>

NextLevel == GenerateStep

SpecLevel == InitLevel /\ [][NextLevel]_vars

---------------------------------------------------------------------------
\* _handle_collision on its own: a session in play with one ball at any of the
\* places (between and around the bricks of the first level, across the paddle,
\* in the open field) with any of the velocities, a paddle at rest or moving,
\* and one call for that ball.  probe.before is the session before the call.

\* Ball centres, in 1/100 pixel: the middle of column 7, the gap between columns
\* 7 and 8, and the left end, the middle, three quarters and the right end of the paddle
ColBallXChoices == {59350, 63250, 35000, 40000, 42500, 45000}

\* between rows 4 and 5, the middle of row 5, the lower edge of row 5, the open
\* field, the top of the paddle
ColBallYChoices == {20750, 22250, 24000, 30000, 54500}

ColBallVelChoices == {Vector2D(200, 300), Vector2D(-200, 300), Vector2D(0, 300), Vector2D(200, -300)}

\* paddle.vel, in 1/100 pixel per second
ColPaddleVelChoices == {0, 60000}

\* The cells of the first level that the omission draws kept
ColKeptChoices == {{<<4, 7>>, <<5, 7>>}, {<<5, 7>>, <<5, 8>>}, {<<4, 7>>, <<5, 7>>, <<5, 8>>}}

InitCollision ==
    /\ state = "PLAYING" /\ score = 0 /\ lives = InitialLives /\ level = 1
    /\ \E pv \in ColPaddleVelChoices : paddle = [Paddle EXCEPT !.vel = pv]
    /\ \E x \in ColBallXChoices, y \in ColBallYChoices, v \in ColBallVelChoices :
          balls = <<[Ball(x, y, 0) EXCEPT !.vel = v]>>
    /\ \E kept \in ColKeptChoices : bricks = LevelBricks(1, kept)
    /\ particles = <<>> /\ powerups = <<>>
    /\ tick = Log("none", 0)
    /\ probe = [kind |-> "collision", done |-> FALSE, before |-> Nothing]

\* self._handle_collision(ball, dt)
CollideStep ==
    /\ probe.kind = "collision" /\ ~probe.done
    /\ \E g \in HandleCollision(Entering("collision"), 1) :
          /\ state' = g.state /\ score' = g.score /\ lives' = g.lives /\ level' = g.level
          /\ paddle' = g.paddle /\ balls' = g.balls /\ bricks' = g.bricks
          /\ particles' = g.particles /\ powerups' = g.powerups
          /\ tick' = g.log
          /\ probe' = [probe EXCEPT !.done = TRUE, !.before = Game]

NextCollision == CollideStep

SpecCollision == InitCollision /\ [][NextCollision]_vars

---------------------------------------------------------------------------
\* Playing frames with power-ups in flight: a session in play on the first
\* level, the paddle in the middle or at the right end of the field, one ball in
\* the open field, and one or two power-ups falling below the bricks of columns
\* 7 and 9.  MaxFrames frames of _handle_playing are taken, the pointer over
\* column 7 or beyond the right end.  probe.before is the session before the
\* frame taken last.

\* self.paddle.x, in 1/100 pixel
FramePaddleXChoices == {35000, 70000}

\* pygame.mouse.get_pos()[0]
FrameMouseChoices == {593, 900}

\* Power-up centres <<x, y>> in pixels: x = brick.x + brick.width // 2 of columns
\* 7 and 9; y in the open field, one frame above the paddle top, one frame above
\* the bottom of the field
FramePowerupPlaces == {<<593, 300>>, <<593, 520>>, <<749, 520>>, <<749, 590>>}

\* self.powerups: one power-up of any kind, or two
FramePowerupLists ==
    {<<PowerUp(c[1], c[2], t)>> : c \in FramePowerupPlaces, t \in PowerUpTypes}
    \cup {<<PowerUp(c[1], c[2], t), PowerUp(d[1], d[2], u)>> :
             c \in FramePowerupPlaces, t \in {1, 6}, d \in FramePowerupPlaces, u \in {1, 4}}

InitFrame ==
    /\ state = "PLAYING" /\ score = 0 /\ lives = InitialLives /\ level = 1
    /\ \E x \in FramePaddleXChoices : paddle = [Paddle EXCEPT !.x = x]
    /\ balls = <<Ball(40000, 40000, 200)>>
    /\ bricks = LevelBricks(1, {<<5, 7>>, <<5, 9>>})
    /\ particles = <<>>
    /\ powerups \in FramePowerupLists
    /\ tick = Log("none", 0)
    /\ probe = [kind |-> "frame", frames |-> 0, before |-> Nothing]

\* handler(dt, events) with self.state == GameState.PLAYING
FrameStep ==
    /\ probe.kind = "frame" /\ probe.frames < MaxFrames
    /\ state = "PLAYING"
    /\ \E dt \in DtChoices, mouse_x \in FrameMouseChoices, events \in EventLists :
          \E h \in PlayingUpdates(EnteringAt("playing", dt), dt, mouse_x) :
              LET g == CheckPause(h, events)
              IN  /\ state' = g.state /\ score' = g.score /\ lives' = g.lives /\ level' = g.level
                  /\ paddle' = g.paddle /\ balls' = g.balls /\ bricks' = g.bricks
                  /\ particles' = g.particles /\ powerups' = g.powerups
                  /\ tick' = g.log
                  /\ probe' = [probe EXCEPT !.frames = @ + 1, !.before = Game]

NextFrame == FrameStep

SpecFrame == InitFrame /\ [][NextFrame]_vars

---------------------------------------------------------------------------
\* Claims

\* C1: in every Playing tick in which the last active ball is lost and lives
\* reach 0, the game state at the end of the tick is GameOver, whatever events
\* arrive in the tick and whatever the brick set is.
C1_LastLifeLostEndsInGameOver ==
    (tick.handler = "playing" /\ tick.emptied /\ tick.afterLoop.lives = 0) => state = "GAME_OVER"

\* C2: at every tick boundary where the game state is Playing at least one ball
\* is active.
C2_PlayingHasABall == state = "PLAYING" => Len(balls) >= 1

\* C3: the initial state is Menu, and between two consecutive ticks the game
\* state stays the same or changes along one of Menu->Playing (start input),
\* Playing->Paused (pause input), Paused->Playing (resume input),
\* Playing->GameOver, Playing->Victory, GameOver->Menu (restart),
\* Victory->Menu (restart); no other transition is taken.
C3_OnlyListedTransitions ==
    /\ state = "MENU"
    /\ [][\/ state' = state
          \/ state = "MENU" /\ state' = "PLAYING" /\ tick'.started
          \/ state = "PLAYING" /\ state' = "PAUSED" /\ tick'.paused
          \/ state = "PAUSED" /\ state' = "PLAYING" /\ tick'.resumed
          \/ state = "PLAYING" /\ state' = "GAME_OVER"
          \/ state = "PLAYING" /\ state' = "VICTORY"
          \/ state = "GAME_OVER" /\ state' = "MENU" /\ tick'.restarts > 0
          \/ state = "VICTORY" /\ state' = "MENU" /\ tick'.restarts > 0]_vars

\* A paused game was resumed: Menu->Playing, Playing->Paused and Paused->Playing
\* have all been taken.
C3_Witness == state = "PLAYING" /\ tick.handler = "paused" /\ tick.resumed

\* C4: after Ball.update, a ball that touches the left wall (x - r <= 0) has
\* velocity.x >= 0 and a ball that touches the right wall (x + r >= width) has
\* velocity.x <= 0, whether or not the top-wall condition holds too.
C4_SideWallsTurnTheBall ==
    (probe.kind = "ball" /\ probe.updates > 0) =>
        /\ TouchesLeft(probe.ball) => probe.ball.vel.x >= 0
        /\ TouchesRight(probe.ball) => probe.ball.vel.x <= 0

\* C5: after Ball.update, a ball that touches the top wall (y - r <= 0) has
\* velocity.y >= 0 with its magnitude unchanged, whatever the left-wall and
\* right-wall conditions are; and the position is the moved position, never
\* clamped by the wall handling.
C5_TopWallTurnsTheBall ==
    (probe.kind = "ball" /\ probe.updates > 0) =>
        /\ TouchesTop(probe.ball) =>
              probe.ball.vel.y >= 0 /\ probe.ball.vel.y = Abs(probe.before.vel.y)
        /\ probe.ball.pos.x = probe.before.pos.x
                + RoundDiv(probe.before.vel.x * probe.dt * probe.before.speed_multiplier, 100)
        /\ probe.ball.pos.y = probe.before.pos.y
                + RoundDiv(probe.before.vel.y * probe.dt * probe.before.speed_multiplier, 100)

\* A ball moving up and left ended an update in the top-left corner, beyond both walls.
C5_Witness ==
    /\ probe.kind = "ball" /\ probe.updates > 0
    /\ TouchesTop(probe.ball) /\ TouchesLeft(probe.ball)
    /\ probe.before.vel.y < 0 /\ probe.before.vel.x < 0
    /\ probe.ball.pos.x < 0 /\ probe.ball.pos.y < 0

\* C6: in every state whose game state is Victory the brick set is empty and
\* level > 5, and Victory is entered only by a Playing tick whose victory check
\* found the brick set empty.
C6_VictoryOnlyWhenCleared ==
    state = "VICTORY" =>
        /\ bricks = <<>>
        /\ level > FinalLevel
        /\ tick.handler \in {"playing", "victory"}
        /\ tick.handler = "playing" => tick.cleared

\* A Playing tick has just entered Victory.
C6_Witness == state = "VICTORY" /\ tick.handler = "playing"

C8_FrozenOutsidePlaying ==
    [][(state \in {"MENU", "PAUSED", "GAME_OVER", "VICTORY"} /\ tick'.restarts = 0) =>
          /\ UNCHANGED <<score, lives, level, paddle, balls, powerups, particles>>
          /\ bricks' = bricks \/ (state = "MENU" /\ tick'.started)]_vars

\* A Paused tick has run while a ball, a power-up and particles were on the field.
C8_Witness ==
    /\ tick.handler = "paused" /\ tick.restarts = 0
    /\ balls # <<>> /\ powerups # <<>> /\ particles # <<>>

\* C9: after a tick of GameOver or Victory that processed restart inputs, however
\* many, the state is Menu, score = 0, lives = 3, level = 1, the paddle has width
\* 100 and is not sticky, exactly one ball is active with speed multiplier 1.0,
\* there are no power-ups and no particles, and the bricks are a generated
\* layout of level 1.
C9_RestartReconstructsSession ==
    tick.restarts >= 1 =>
        /\ tick.handler \in {"game_over", "victory"}
        /\ state = "MENU" /\ score = 0 /\ lives = InitialLives /\ level = 1
        /\ paddle.width = PaddleBaseWidth /\ paddle.sticky = FALSE
        /\ Len(balls) = 1 /\ balls[1].speed_multiplier = 10
        /\ powerups = <<>> /\ particles = <<>>
        /\ bricks \in GenerateLevel(1)

\* A GameOver tick has processed two restart inputs.
C9_Witness == tick.handler = "game_over" /\ tick.restarts = 2

\* C10 as stated: lives change in exactly two ways, by -1 in a Playing tick in
\* which the ball set becomes empty and by +1 for each Extra-Life applied.
C10_Original == [][lives' = lives + tick'.extraLives - (IF tick'.emptied THEN 1 ELSE 0)]_vars

\* C10, amended: in a tick that processes no restart input lives change by -1 if
\* the ball set became empty in the tick (at most once per tick) and by +1 for
\* each Extra-Life power-up applied, and by nothing else; a tick that processes
\* a restart input sets lives to 3.  When lives remain > 0 after a decrement, the
\* balls right after the ball loop are exactly one fresh ball at the default
\* launch position.
C10_LivesAccounting ==
    [][/\ IF tick'.restarts > 0
          THEN lives' = InitialLives
          ELSE lives' = lives + tick'.extraLives - (IF tick'.emptied THEN 1 ELSE 0)
       /\ (tick'.emptied /\ tick'.afterLoop.lives > 0) =>
              \E vx \in LaunchVx : tick'.afterLoop.balls = <<LaunchBall(vx)>>]_vars

\* A life was lost and a fresh ball launched in a session that had gained an extra life.
C10_Witness ==
    /\ tick.handler = "playing" /\ tick.emptied /\ tick.afterLoop.lives > 0
    /\ lives = InitialLives

\* C11: for every brick and every sequence of hit() calls on it,
\* 0 <= health <= max_health holds after each call.
C11_HealthStaysInRange ==
    probe.kind = "brick" => 0 <= probe.brick.health /\ probe.brick.health <= probe.brick.max_health

\* C12: every brick in the active set at a tick boundary has
\* 1 <= health <= max_health <= 5; a brick whose health reaches 0 is removed in
\* the collision step that brought it to 0 (it is in the frame's list of
\* destroyed bricks, with health 1 before the hit), so no brick with
\* health <= 0 is left active.
C12_ActiveBricksAreAlive ==
    /\ \A i \in 1..Len(bricks) :
          /\ 1 <= bricks[i].health
          /\ bricks[i].health <= bricks[i].max_health
          /\ bricks[i].max_health <= BrickMaxHealth
    /\ \A k \in 1..Len(tick.destroyed) :
          /\ tick.destroyed[k].health = 1
          /\ \A i \in 1..Len(bricks) :
                <<bricks[i].x, bricks[i].y>> # <<tick.destroyed[k].x, tick.destroyed[k].y>>

\* A Playing tick has destroyed a brick that an earlier hit had brought from
\* health 2 to 1.
C12_Witness ==
    /\ tick.handler = "playing" /\ Len(tick.destroyed) = 1
    /\ tick.destroyed[1].max_health = 2 /\ tick.destroyed[1].health = 1

\* C13: a brick created with health h (1 <= h <= 5) takes exactly h hits to
\* destroy: hit() returns false on each of the first h - 1 calls and true on
\* the h-th, each call lowers health by exactly 1, and points = h * 100.
C13_ExactlyHHits ==
    probe.kind = "brick" =>
        LET h == probe.brick.max_health
        IN  /\ h \in 1..BrickMaxHealth
            /\ \A k \in 1..Len(probe.returns) : k <= h => probe.returns[k] = (k = h)
            /\ probe.brick.health = h - Len(probe.returns)
            /\ probe.brick.points = h * 100

\* A brick created with health 3 has been hit three times.
C13_Witness ==
    /\ probe.kind = "brick" /\ probe.brick.max_health = 3
    /\ Len(probe.returns) = 3 /\ probe.returns[3] = TRUE

\* self.score += brick.points, over the bricks a frame destroyed
RECURSIVE SumPoints(_)
SumPoints(destroyed) ==
    IF destroyed = <<>> THEN 0 ELSE Head(destroyed).points + SumPoints(Tail(destroyed))

\* C14: destroying a brick increases the score by exactly that brick's points,
\* its creation-time health times 100, once; a ball hit that does not destroy
\* the brick leaves the score unchanged.  (Per tick without a restart: the
\* score grows by the points of the bricks destroyed in the tick and by the
\* bonus of each power-up applied in it, and by nothing for the other hits.)
C14_ScoreGrowsByBrickPoints ==
    [][tick'.restarts = 0 =>
          /\ \A k \in 1..Len(tick'.destroyed) :
                tick'.destroyed[k].points = 100 * tick'.destroyed[k].max_health
          /\ score' = score + SumPoints(tick'.destroyed) + PowerUpBonus * Len(tick'.applied)]_vars

\* A Playing tick has destroyed a brick created with health 2, after an
\* earlier tick had destroyed the brick created with health 1.
C14_Witness ==
    /\ tick.handler = "playing" /\ Len(tick.destroyed) = 1 /\ tick.applied = <<>>
    /\ tick.destroyed[1].points = 200
    /\ score = 300

\* C16: the score is a non-negative integer that never decreases from one tick
\* to the next, except when a restart resets it to 0.
C16_ScoreNeverDecreases ==
    /\ score \in Nat
    /\ [][/\ score' \in Nat
          /\ score' < score => (tick'.restarts > 0 /\ score' = 0)]_vars

\* The score has grown by a brick and then by a collected power-up.
C16_Witness ==
    /\ tick.handler = "playing" /\ Len(tick.applied) = 1 /\ tick.destroyed = <<>>
    /\ score = 150

\* C15: applying a power-up of any of the six kinds increases the score by
\* exactly 50; applying Laser changes nothing else in the session, and applying
\* Sticky Paddle changes nothing else except setting paddle.sticky to true; the
\* flag is read by no update, collision or transition: the updates of a Playing
\* frame give the same sessions, up to the flag, whatever the flag is.
C15_BonusLaserSticky ==
    probe.kind = "powerup" =>
        /\ probe.applies > 0 =>
              /\ score = probe.before.score + PowerUpBonus
              /\ probe.type = 4 => Game = [probe.before EXCEPT !.score = @ + PowerUpBonus]
              /\ probe.type = 5 =>
                    Game = [probe.before EXCEPT !.score = @ + PowerUpBonus, !.paddle.sticky = TRUE]
        /\ \A dt \in DtChoices, mouse_x \in MouseChoices, events \in EventLists :
              {CheckPause([h EXCEPT !.paddle.sticky = ~@], events) :
                  h \in PlayingUpdates(Entering("playing"), dt, mouse_x)}
              = {CheckPause(h, events) :
                  h \in PlayingUpdates([Entering("playing") EXCEPT !.paddle.sticky = ~@], dt, mouse_x)}

\* Sticky Paddle has been applied, as the second power-up, to a session with a
\* ball about to meet the paddle.
C15_Witness ==
    /\ probe.kind = "powerup" /\ probe.applies = 2 /\ probe.type = 5
    /\ tick.applied = <<5>> /\ score = 2 * PowerUpBonus
    /\ paddle.sticky /\ ~probe.before.paddle.sticky
    /\ balls # <<>>

\* C17: paddle.width is within [100, 200]: it starts at 100, each
\* Expand-Paddle application sets it to min(width + 30, 200), and the
\* application of any other kind leaves it as it is.
C17_PaddleWidthInRange ==
    probe.kind = "powerup" =>
        /\ Paddle.width = 100
        /\ paddle.width >= 100 /\ paddle.width <= 200
        /\ probe.applies > 0 =>
              paddle.width = IF probe.type = 1
                             THEN Min(probe.before.paddle.width + 30, 200)
                             ELSE probe.before.paddle.width

\* Expand-Paddle has been applied to a paddle of width 190, and left it at 200.
C17_Witness ==
    /\ probe.kind = "powerup" /\ probe.applies > 0 /\ probe.type = 1
    /\ probe.before.paddle.width = 190 /\ paddle.width = 200

\* C18: applying Multi-Ball when at least one ball is active adds exactly 2
\* balls at the first ball's position, each with speed multiplier 1.0, and
\* leaves the existing balls unchanged; applying it when no ball is active adds
\* no ball.
C18_MultiBall ==
    (probe.kind = "powerup" /\ probe.applies > 0 /\ probe.type = 2) =>
        LET old == probe.before.balls
        IN  IF old = <<>> THEN balls = <<>>
            ELSE /\ Len(balls) = Len(old) + 2
                 /\ SubSeq(balls, 1, Len(old)) = old
                 /\ \A k \in Len(old) + 1 .. Len(old) + 2 :
                       balls[k].pos = old[1].pos /\ balls[k].speed_multiplier = 10

\* Multi-Ball has been applied to two balls slowed by Slow Ball.
C18_Witness ==
    /\ probe.kind = "powerup" /\ probe.applies = 2 /\ probe.type = 2
    /\ Len(probe.before.balls) = 2 /\ probe.before.balls[1].speed_multiplier = 7
    /\ Len(balls) = 4

\* C19: for all target positions, also far outside the field, and all dt >= 0,
\* after Paddle.update on a field at least as wide as the paddle, paddle.x is
\* within [0, field_width - paddle.width].
C19_PaddleStaysInField ==
    (probe.kind = "paddle" /\ probe.updates > 0 /\ probe.width >= paddle.width) =>
        0 <= paddle.x /\ paddle.x <= 100 * (probe.width - paddle.width)

\* A paddle was sent far to the right of the field for 0.5 s, and stands at the
\* right edge of the field.
C19_Witness ==
    /\ probe.kind = "paddle" /\ probe.updates = 1
    /\ probe.mouse_x = 1700 /\ probe.dt = 500 /\ probe.width = 800
    /\ paddle.width = 130 /\ paddle.x = 100 * (800 - 130)

\* C20: for every level index n >= 1, every brick produced by level generation
\* sits in a cell (row, col) of its own with 0 <= row < min(5 + n, 10) and
\* 0 <= col < 10, at x = col * 78 + 10 and y = row * 30 + 60, and has
\* health = min(rows - row, 5), which lies in [1, 5].
C20_GeneratedBricksOnGrid ==
    (probe.kind = "level" /\ probe.generated /\ level >= 1) =>
        LET rows == IF 5 + level <= 10 THEN 5 + level ELSE 10
        IN  /\ \A i \in 1..Len(bricks) :
                  \E row \in 0..rows - 1, col \in 0..9 :
                      /\ bricks[i].x = col * 78 + 10
                      /\ bricks[i].y = row * 30 + 60
                      /\ bricks[i].health = (IF rows - row <= 5 THEN rows - row ELSE 5)
                      /\ bricks[i].health >= 1 /\ bricks[i].health <= 5
            /\ \A i, j \in 1..Len(bricks) :
                  i # j => <<bricks[i].x, bricks[i].y>> # <<bricks[j].x, bricks[j].y>>

\* Level 5 has been generated with every cell kept: 10 rows of 10 bricks.
C20_Witness ==
    /\ probe.kind = "level" /\ probe.generated
    /\ level = 5 /\ Len(bricks) = 100

\* C21: after _generate_level(n) for any level index n >= 1 the active brick
\* set holds at least one brick, whatever the per-cell omission draws were.
C21_LevelHasABrick ==
    (probe.kind = "level" /\ probe.generated /\ level >= 1) => Len(bricks) >= 1

\* C22: level generation never returns normally for a configuration with zero
\* rows (or zero columns): whenever _generate_level has returned and assigned
\* self.bricks, the grid it was asked for had at least one row and one column.
C22_ZeroRowsRejected ==
    (probe.kind = "level" /\ probe.generated) => (LevelRows(level) >= 1 /\ BrickCols >= 1)

\* C23: the frame time dt handed to the active state handler on a tick never
\* exceeds 1/30 s, however much time passed since the previous frame.
C23_FrameTimeCapped ==
    tick.handler \in {"menu", "playing", "paused", "game_over", "victory"} => 30 * tick.dt <= 1000

\* C26: lives are never negative in a reachable state, whatever the ticks and
\* the input events are, pausing in the tick in which the game ends or a level
\* is cleared included.
C26_LivesNeverNegative == lives >= 0

\* The last ball was lost with one life left in a Playing tick that also saw the
\* pause key: lives are 0 and the session is Paused instead of GameOver.
C26_Witness ==
    /\ tick.handler = "playing" /\ tick.emptied /\ tick.paused
    /\ lives = 0 /\ state = "PAUSED"

\* C27: in every reachable state the level counter satisfies 1 <= level <= 6,
\* whatever the ticks and the input events are.
C27_LevelBounded == 1 <= level /\ level <= FinalLevel + 1

\* C24: in one tick a ball hits at most one brick: the first brick in the order
\* of the active set that overlaps the ball loses exactly 1 health (and leaves
\* the set when that takes it to 0), no other brick changes, and on that hit
\* exactly one velocity component is negated, velocity.x if |dx| > |dy| between
\* the centres and velocity.y otherwise, whether the brick was destroyed or not.
C24_OneBrickPerBall ==
    (probe.kind = "collision" /\ probe.done) =>
        LET b == probe.before
            ball == b.balls[1]
            ball_rect == Rect(ball.pos.x - 800, ball.pos.y - 800, 16, 16)
            onPaddle == CollideRect(Rect(b.paddle.x, 55000, b.paddle.width, 20), ball_rect)
            hit == {j \in 1..Len(b.bricks) :
                       CollideRect(Rect(100 * b.bricks[j].x, 100 * b.bricks[j].y, 75, 25), ball_rect)}
        IN  IF hit = {}
            THEN bricks = b.bricks /\ tick.destroyed = <<>> /\ tick.bumped = 0
                 /\ (~onPaddle => balls = b.balls)
            ELSE LET j == CHOOSE k \in hit : \A m \in hit : k <= m
                     brick == b.bricks[j]
                     dx == ball.pos.x - 100 * (brick.x + 37)
                     dy == ball.pos.y - 100 * (brick.y + 12)
                     negX == (IF dx >= 0 THEN dx ELSE -dx) > (IF dy >= 0 THEN dy ELSE -dy)
                 IN  /\ Len(tick.destroyed) + tick.bumped = 1
                     /\ bricks = IF brick.health = 1 THEN RemoveAt(b.bricks, j)
                                 ELSE [b.bricks EXCEPT ![j].health = @ - 1]
                     /\ ~onPaddle =>
                           /\ balls[1].pos = ball.pos
                           /\ balls[1].vel = IF negX THEN Vector2D(-ball.vel.x, ball.vel.y)
                                             ELSE Vector2D(ball.vel.x, -ball.vel.y)

\* The ball lay over the bricks of rows 4 and 5 of column 7 at once: the brick of
\* row 4, first in the list, went from health 2 to 1 and stays, the brick of row
\* 5 is untouched, and velocity.y was negated.
C24_Witness ==
    /\ probe.kind = "collision" /\ probe.done
    /\ probe.before.balls[1].pos = Vector2D(59350, 20750)
    /\ probe.before.balls[1].vel = Vector2D(200, -300)
    /\ Len(probe.before.bricks) = 2 /\ Len(bricks) = 2
    /\ bricks[1].health = 1 /\ bricks[1].max_health = 2
    /\ bricks[2] = probe.before.bricks[2]
    /\ balls[1].vel = Vector2D(200, 300)

\* C29: after the paddle step of a collision the ball moves upward: a ball
\* moving downward that overlaps the paddle has velocity.y < 0 afterwards,
\* wherever on the paddle it hit; a ball with velocity.y <= 0 is left unchanged.
C29_BallLeavesPaddleUpward ==
    (probe.kind = "collision" /\ probe.done) =>
        LET b == probe.before
            ball == b.balls[1]
            ball_rect == Rect(ball.pos.x - 800, ball.pos.y - 800, 16, 16)
            onPaddle == CollideRect(Rect(b.paddle.x, 55000, b.paddle.width, 20), ball_rect)
        IN  onPaddle => IF ball.vel.y > 0 THEN balls[1].vel.y < 0 ELSE balls = b.balls

\* C25: a power-up leaves the active set in exactly one of two ways and its
\* effect is applied at most once.  In a Playing tick every power-up falls by
\* 150 * dt; one that is then below the bottom of the field is removed with no
\* effect and no score change; one that then overlaps the paddle is removed in
\* that tick, in which its effect and the +50 bonus are applied once; every
\* other one stays, moved.  So no power-up applied in a tick is in the set
\* afterwards.
C25_PowerupLeavesOnce ==
    (probe.kind = "frame" /\ probe.frames > 0) =>
        LET b == probe.before
            n == Len(b.powerups)
            y1(k) == b.powerups[k].pos.y + 15 * tick.dt
            out(k) == y1(k) > 60000
            over(k) == /\ ~out(k)
                       /\ CollideRect(Rect(paddle.x, 55000, b.paddle.width, 20),
                                      Rect(b.powerups[k].pos.x - 2000, y1(k) - 2000, 40, 40))
            idx == [k \in 1..n |-> k]
            stay == SelectSeq(idx, LAMBDA k : ~out(k) /\ ~over(k))
            got == SelectSeq(idx, LAMBDA k : over(k))
        IN  /\ powerups = [m \in 1..Len(stay) |-> [b.powerups[stay[m]] EXCEPT !.pos.y = y1(stay[m])]]
            /\ tick.applied = [m \in 1..Len(got) |-> b.powerups[got[m]].type]
            /\ score = b.score + PowerUpBonus * Len(got) + SumPoints(tick.destroyed)
            /\ lives = b.lives + Cardinality({m \in 1..Len(got) : b.powerups[got[m]].type = 6})

\* In one frame the first power-up fell below the bottom of the field and the
\* second one, a Laser, met the paddle at the right end: both are gone, one
\* effect was applied and the score grew by 50.
C25_Witness ==
    /\ probe.kind = "frame" /\ probe.frames = 1
    /\ Len(probe.before.powerups) = 2
    /\ probe.before.powerups[1].pos = Vector2D(74900, 59000)
    /\ probe.before.powerups[2] = PowerUp(749, 520, 4)
    /\ powerups = <<>> /\ tick.applied = <<4>> /\ score = probe.before.score + 50

\* C28: at the end of every tick the paddle lies inside the field: 0 <=
\* paddle.x and paddle.x + paddle.width <= field width, also in a tick in which
\* an Expand-Paddle power-up is collected after the paddle has been moved.
C28_PaddleInsideAtTickEnd ==
    (probe.kind = "frame" /\ probe.frames > 0) =>
        (0 <= paddle.x /\ paddle.x + 100 * paddle.width <= 100 * Width)

====
